---- MODULE Spec2Model ----
(***************************************************************************)
(* Model of the palliative-care records backend (api/models.py and         *)
(* api/views.py).  The four tables are sequences whose index is the        *)
(* primary key (no handler deletes a row).  Every HTTP handler is one      *)
(* action; `resp` is the last request together with its response.          *)
(*                                                                         *)
(* Text that the code only compares for equality (status, condition,       *)
(* disease, category) is a TLA+ string.  Text that the code searches       *)
(* (full_name, item_name, material_name, request parameters) is a tuple of *)
(* one-character strings.  A date is <<year, month, day>>.                 *)
(* Columns no handler reads (gender, dob, address, guardian_*, time_spent, *)
(* the free-text notes) are left out of the rows.                          *)
(***************************************************************************)
EXTENDS Integers, Sequences, FiniteSets, TLC

VARIABLES patients, visits, inventory, allocations, resp

vars == <<patients, visits, inventory, allocations, resp>>

---------------------------------------------------------------------------
(* Python values *)

\* None in an equality-only text column or JSON value
None == "<None>"
\* None where the value is a character string
NoneStr == <<"<None>">>
\* None in a date column (NULL)
NoDate == <<>>
\* NULL foreign key
NoKey == 0

\* bool(x) of a text value: None and "" are falsy
Truthy(x) == x # None /\ x # ""

\* bool(x) of a character string or of a date column
TruthySeq(x) == x # NoneStr /\ x # <<>>

\* data.get(f, default) on a JSON body
Get(data, f, default) == IF f \in DOMAIN data THEN data[f] ELSE default

\* the setattr loop of the generic PUT handlers: every key of the body that
\* is an attribute of the row is assigned, the others are skipped
SetAttrs(row, data) ==
    [f \in DOMAIN row |-> IF f \in DOMAIN data THEN data[f] ELSE row[f]]

Keys(table) == 1..Len(table)

---------------------------------------------------------------------------
(* int() *)

DigitChars == {"0", "1", "2", "3", "4", "5", "6", "7", "8", "9"}

DigitVal(c) ==
    CASE c = "0" -> 0 [] c = "1" -> 1 [] c = "2" -> 2 [] c = "3" -> 3
      [] c = "4" -> 4 [] c = "5" -> 5 [] c = "6" -> 6 [] c = "7" -> 7
      [] c = "8" -> 8 [] c = "9" -> 9

IsDigits(s) == Len(s) > 0 /\ \A i \in 1..Len(s) : s[i] \in DigitChars

RECURSIVE DigitsVal(_)
DigitsVal(s) ==
    IF Len(s) = 0 THEN 0
    ELSE 10 * DigitsVal(SubSeq(s, 1, Len(s) - 1)) + DigitVal(s[Len(s)])

\* int(s) of a character string: [ok, v]; ok is FALSE where Python raises
\* ValueError (or TypeError for None)
ParseInt(s) ==
    IF s = NoneStr THEN [ok |-> FALSE, v |-> 0]
    ELSE IF IsDigits(s) THEN [ok |-> TRUE, v |-> DigitsVal(s)]
    ELSE IF Len(s) > 1 /\ s[1] = "-" /\ IsDigits(Tail(s))
         THEN [ok |-> TRUE, v |-> 0 - DigitsVal(Tail(s))]
    ELSE [ok |-> FALSE, v |-> 0]

---------------------------------------------------------------------------
(* dates: DateField.to_python on the way in, str(date) on the way out *)

IsLeap(y) == (y % 4 = 0 /\ y % 100 # 0) \/ y % 400 = 0

DaysIn(y, m) ==
    IF m = 2 THEN (IF IsLeap(y) THEN 29 ELSE 28)
    ELSE IF m \in {4, 6, 9, 11} THEN 30 ELSE 31

\* the shape \d{4}-\d{1,2}-\d{1,2} with the second dash at position j
DateShape(s, j) ==
    /\ Len(s) >= 8 /\ Len(s) <= 10
    /\ IsDigits(SubSeq(s, 1, 4)) /\ s[5] = "-"
    /\ j \in {7, 8} /\ j < Len(s) /\ s[j] = "-"
    /\ IsDigits(SubSeq(s, 6, j - 1))
    /\ Len(s) - j <= 2 /\ IsDigits(SubSeq(s, j + 1, Len(s)))

\* DateField.to_python(s): [ok, v]; None stays None (NULL), a well-formed
\* calendar date is parsed, anything else ("" included) raises ValidationError
ParseDate(s) ==
    IF s = NoneStr THEN [ok |-> TRUE, v |-> NoDate]
    ELSE IF \E j \in {7, 8} : DateShape(s, j)
    THEN LET j == CHOOSE k \in {7, 8} : DateShape(s, k)
             y == DigitsVal(SubSeq(s, 1, 4))
             m == DigitsVal(SubSeq(s, 6, j - 1))
             d == DigitsVal(SubSeq(s, j + 1, Len(s)))
         IN  IF m \in 1..12 /\ d \in 1..DaysIn(y, m)
             THEN [ok |-> TRUE, v |-> <<y, m, d>>]
             ELSE [ok |-> FALSE, v |-> NoDate]
    ELSE [ok |-> FALSE, v |-> NoDate]

DigitChar(n) ==
    CASE n = 0 -> "0" [] n = 1 -> "1" [] n = 2 -> "2" [] n = 3 -> "3"
      [] n = 4 -> "4" [] n = 5 -> "5" [] n = 6 -> "6" [] n = 7 -> "7"
      [] n = 8 -> "8" [] n = 9 -> "9"

\* str(n) of a natural number
RECURSIVE NatStr(_)
NatStr(n) == IF n < 10 THEN <<DigitChar(n)>>
             ELSE NatStr(n \div 10) \o <<DigitChar(n % 10)>>

\* n formatted with at least w digits, zero padded (%0wd)
RECURSIVE Pad(_, _)
Pad(s, w) == IF Len(s) >= w THEN s ELSE Pad(<<"0">> \o s, w)

\* str(date): YYYY-MM-DD
DateStr(d) ==
    Pad(NatStr(d[1]), 4) \o <<"-">> \o Pad(NatStr(d[2]), 2)
        \o <<"-">> \o Pad(NatStr(d[3]), 2)

\* date < date
DateLess(a, b) ==
    \/ a[1] < b[1]
    \/ a[1] = b[1] /\ a[2] < b[2]
    \/ a[1] = b[1] /\ a[2] = b[2] /\ a[3] < b[3]

---------------------------------------------------------------------------
(* the response of a handler *)

\* op names the handler and verb that answered, status is the HTTP status,
\* pk the row the request addressed or created (NoKey when none)
Response(op, status, pk) == [op |-> op, status |-> status, pk |-> pk]

---------------------------------------------------------------------------
(* models.py *)

\* Patient.current_status defaults to 'Active'; is_expired to False
PatientRow(full_name, age, condition, disease, status) ==
    [full_name |-> full_name, age |-> age, condition |-> condition,
     disease |-> disease, is_expired |-> FALSE, current_status |-> status]

\* Visit: is_completed defaults to False, visit_date to NULL
VisitRow(patient_id, scheduled_date, assessment) ==
    [patient_id |-> patient_id, scheduled_date |-> scheduled_date,
     visit_date |-> NoDate, is_completed |-> FALSE,
     condition_assessment |-> assessment]

\* Visit.save without the `if self.condition_assessment` test
PropagateStatusUnguarded(ps, v) ==
    [ps EXCEPT ![v.patient_id].current_status = v.condition_assessment]

\* Visit.save after super().save(): the patient table once the visit row v
\* is stored
PropagateStatus(ps, v) ==
    IF Truthy(v.condition_assessment)
    THEN [ps EXCEPT ![v.patient_id].current_status = v.condition_assessment]
    ELSE ps

---------------------------------------------------------------------------
(* views.py: patients *)

StatusConditions == {"Stable", "Moderate", "Severe", "Critical", "Bedridden"}

\* the status patient_list derives from the form's condition
InitialStatus(input_condition) ==
    IF input_condition \in StatusConditions THEN input_condition ELSE "Stable"

\* POST /patients
PatientListPost(data) ==
    LET age == ParseInt(Get(data, "age", NoneStr))
        full_name == Get(data, "full_name", NoneStr)
        condition == Get(data, "condition", None)
        disease == Get(data, "disease", None)
        op == "patient_list.POST"
    IN  IF ~age.ok
        THEN /\ resp' = Response(op, 400, NoKey)
             /\ UNCHANGED <<patients, visits, inventory, allocations>>
        ELSE IF full_name = NoneStr \/ condition = None \/ disease = None
        THEN \* NOT NULL column: IntegrityError caught by the handler
             /\ resp' = Response(op, 400, NoKey)
             /\ UNCHANGED <<patients, visits, inventory, allocations>>
        ELSE /\ patients' = Append(patients,
                    PatientRow(full_name, age.v, condition, disease,
                               InitialStatus(condition)))
             /\ resp' = Response(op, 201, Len(patients) + 1)
             /\ UNCHANGED <<visits, inventory, allocations>>

\* the patient row after the setattr loop and save(); age is coerced by
\* IntegerField on save
PatientAfterPut(row, data) ==
    LET set == SetAttrs(row, data)
    IN  IF "age" \in DOMAIN data
        THEN [set EXCEPT !.age = ParseInt(data.age).v]
        ELSE set

\* PUT /patients/<pk>
PatientDetailPut(pk, data) ==
    LET op == "patient_detail.PUT"
    IN  IF pk \notin Keys(patients)
        THEN /\ resp' = Response(op, 404, pk)
             /\ UNCHANGED <<patients, visits, inventory, allocations>>
        ELSE IF "age" \in DOMAIN data /\ ~ParseInt(data.age).ok
        THEN /\ resp' = Response(op, 400, pk)
             /\ UNCHANGED <<patients, visits, inventory, allocations>>
        ELSE /\ patients' = [patients EXCEPT
                                ![pk] = PatientAfterPut(patients[pk], data)]
             /\ resp' = Response(op, 200, pk)
             /\ UNCHANGED <<visits, inventory, allocations>>

---------------------------------------------------------------------------
(* views.py: visits *)

\* POST /visits and POST /patients/<patient_id>/visits (url_id = NoKey when
\* the URL carries no patient id)
VisitListPost(url_id, data) ==
    LET op == "visit_list.POST"
        pid == IF url_id # NoKey THEN url_id ELSE Get(data, "patient_id", NoKey)
        sched == ParseDate(Get(data, "scheduled_date", NoneStr))
        v == VisitRow(pid, sched.v, Get(data, "condition_assessment", None))
    IN  IF ~sched.ok \/ pid \notin Keys(patients)
        THEN \* ValidationError, or the foreign key / NOT NULL constraint
             /\ resp' = Response(op, 400, NoKey)
             /\ UNCHANGED <<patients, visits, inventory, allocations>>
        ELSE /\ visits' = Append(visits, v)
             /\ patients' = PropagateStatus(patients, v)
             /\ resp' = Response(op, 201, Len(visits) + 1)
             /\ UNCHANGED <<inventory, allocations>>

VisitDateFields == {"scheduled_date", "visit_date"}

\* the visit row after the setattr loop and super().save(); DateField
\* parses the date columns on save
VisitAfterPut(row, data) ==
    [f \in DOMAIN row |->
        IF f \notin DOMAIN data THEN row[f]
        ELSE IF f \in VisitDateFields THEN ParseDate(data[f]).v
        ELSE data[f]]

\* PUT /visits/<pk>
VisitDetailPut(pk, data) ==
    LET op == "visit_detail.PUT"
    IN  IF pk \notin Keys(visits)
        THEN /\ resp' = Response(op, 404, pk)
             /\ UNCHANGED <<patients, visits, inventory, allocations>>
        ELSE LET v == VisitAfterPut(visits[pk], data)
             IN  IF \/ \E f \in VisitDateFields \cap DOMAIN data :
                            ~ParseDate(data[f]).ok
                    \/ v.patient_id \notin Keys(patients)
                 THEN /\ resp' = Response(op, 400, pk)
                      /\ UNCHANGED <<patients, visits, inventory, allocations>>
                 ELSE /\ visits' = [visits EXCEPT ![pk] = v]
                      /\ patients' = PropagateStatus(patients, v)
                      /\ resp' = Response(op, 200, pk)
                      /\ UNCHANGED <<inventory, allocations>>

---------------------------------------------------------------------------
(* views.py: inventory *)

\* Inventory: description defaults to '' in inventory_list
InventoryRow(item_name, category, count, description) ==
    [item_name |-> item_name, category |-> category, count |-> count,
     description |-> description]

\* POST /inventory
InventoryListPost(data) ==
    LET op == "inventory_list.POST"
        item_name == Get(data, "item_name", NoneStr)
        category == Get(data, "category", None)
        count == ParseInt(Get(data, "count", <<"0">>))
    IN  IF ~count.ok \/ item_name = NoneStr \/ category = None
        THEN /\ resp' = Response(op, 400, NoKey)
             /\ UNCHANGED <<patients, visits, inventory, allocations>>
        ELSE /\ inventory' = Append(inventory,
                    InventoryRow(item_name, category, count.v,
                                 Get(data, "description", "")))
             /\ resp' = Response(op, 201, Len(inventory) + 1)
             /\ UNCHANGED <<patients, visits, allocations>>

\* the inventory row after the setattr loop and save(); count is coerced by
\* IntegerField on save
InventoryAfterPut(row, data) ==
    LET set == SetAttrs(row, data)
    IN  IF "count" \in DOMAIN data
        THEN [set EXCEPT !.count = ParseInt(data.count).v]
        ELSE set

\* PUT /inventory/<pk>
InventoryDetailPut(pk, data) ==
    LET op == "inventory_detail.PUT"
        val == ParseInt(Get(data, "add_stock", NoneStr))
    IN  IF pk \notin Keys(inventory)
        THEN /\ resp' = Response(op, 404, pk)
             /\ UNCHANGED <<patients, visits, inventory, allocations>>
        ELSE IF "add_stock" \in DOMAIN data /\ ~val.ok
        THEN /\ resp' = Response(op, 400, pk)
             /\ UNCHANGED <<patients, visits, inventory, allocations>>
        ELSE IF "add_stock" \in DOMAIN data /\ val.v > 0
        THEN /\ inventory' = [inventory EXCEPT ![pk].count = @ + val.v]
             /\ resp' = Response(op, 200, pk)
             /\ UNCHANGED <<patients, visits, allocations>>
        ELSE IF "count" \in DOMAIN data /\ ~ParseInt(data.count).ok
        THEN /\ resp' = Response(op, 400, pk)
             /\ UNCHANGED <<patients, visits, inventory, allocations>>
        ELSE /\ inventory' = [inventory EXCEPT
                                 ![pk] = InventoryAfterPut(inventory[pk], data)]
             /\ resp' = Response(op, 200, pk)
             /\ UNCHANGED <<patients, visits, allocations>>

---------------------------------------------------------------------------
(* views.py: allocations *)

\* POST /patients/<patient_id>/allocations
AllocationListPost(patient_id, data) ==
    LET op == "allocation_list.POST"
        material_name == Get(data, "material_name", NoneStr)
        inventory_id == Get(data, "inventory_item_id", NoKey)
        allocation_date == ParseDate(Get(data, "allocation_date", NoneStr))
        return_date == ParseDate(Get(data, "return_date", NoneStr))
    IN  IF \/ patient_id \notin Keys(patients)
           \/ material_name = NoneStr
           \/ inventory_id \notin Keys(inventory) \cup {NoKey}
           \/ ~allocation_date.ok \/ allocation_date.v = NoDate
           \/ ~return_date.ok
        THEN /\ resp' = Response(op, 400, NoKey)
             /\ UNCHANGED <<patients, visits, inventory, allocations>>
        ELSE /\ allocations' = Append(allocations,
                    [patient_id |-> patient_id,
                     material_name |-> material_name,
                     inventory_item_id |-> inventory_id,
                     allocation_date |-> allocation_date.v,
                     is_returnable |-> Get(data, "is_returnable", FALSE),
                     return_date |-> return_date.v,
                     is_damaged |-> Get(data, "is_damaged", FALSE)])
             /\ resp' = Response(op, 201, Len(allocations) + 1)
             /\ UNCHANGED <<patients, visits, inventory>>

\* `'return_date' in data and data['return_date']`
IsReturnAction(data) ==
    "return_date" \in DOMAIN data /\ TruthySeq(data.return_date)

\* the restock test without `not allocation.is_damaged`
RestocksDamaged(alloc) ==
    alloc.is_returnable /\ alloc.inventory_item_id # NoKey

\* the restock test of allocation_detail, on the allocation row with the
\* request's damage flag already assigned
Restocks(alloc) ==
    alloc.is_returnable /\ ~alloc.is_damaged /\ alloc.inventory_item_id # NoKey

\* PUT /allocations/<pk>
AllocationDetailPut(pk, data) ==
    LET op == "allocation_detail.PUT"
    IN  IF pk \notin Keys(allocations)
        THEN /\ resp' = Response(op, 404, pk)
             /\ UNCHANGED <<patients, visits, inventory, allocations>>
        ELSE IF ~IsReturnAction(data)
        THEN \* allocation.save() of the unmodified row
             /\ resp' = Response(op, 200, pk)
             /\ UNCHANGED <<patients, visits, inventory, allocations>>
        ELSE LET return_date == ParseDate(data.return_date)
                 alloc == [allocations[pk] EXCEPT
                              !.return_date = return_date.v,
                              !.is_damaged = Get(data, "is_damaged", FALSE)]
             IN  /\ inventory' =
                        IF Restocks(alloc)
                        THEN [inventory EXCEPT
                                 ![alloc.inventory_item_id].count = @ + 1]
                        ELSE inventory
                 /\ IF return_date.ok
                    THEN /\ allocations' = [allocations EXCEPT ![pk] = alloc]
                         /\ resp' = Response(op, 200, pk)
                    ELSE \* allocation.save() raises ValidationError after
                         \* the inventory item was saved
                         /\ allocations' = allocations
                         /\ resp' = Response(op, 400, pk)
                 /\ UNCHANGED <<patients, visits>>

---------------------------------------------------------------------------
(* text search: icontains *)

UpperChars == <<"A", "B", "C", "D", "E", "F", "G", "H", "I", "J", "K", "L",
                "M", "N", "O", "P", "Q", "R", "S", "T", "U", "V", "W", "X",
                "Y", "Z">>
LowerChars == <<"a", "b", "c", "d", "e", "f", "g", "h", "i", "j", "k", "l",
                "m", "n", "o", "p", "q", "r", "s", "t", "u", "v", "w", "x",
                "y", "z">>

\* str.lower() of the letters
LowerOf == [i \in 1..Len(UpperChars) |-> LowerChars[i]]

UpperIndex ==
    [c \in {UpperChars[i] : i \in 1..Len(UpperChars)} |->
        CHOOSE i \in 1..Len(UpperChars) : UpperChars[i] = c]

\* str.lower() of one character
Lower(c) == IF c \in DOMAIN UpperIndex THEN LowerOf[UpperIndex[c]] ELSE c

LowerStr(s) == [i \in 1..Len(s) |-> Lower(s[i])]

\* needle is a substring of hay
Contains(hay, needle) ==
    \E i \in 1..(Len(hay) - Len(needle) + 1) :
        SubSeq(hay, i, i + Len(needle) - 1) = needle

\* the __icontains lookup
IContains(hay, needle) == Contains(LowerStr(hay), LowerStr(needle))

\* the sequences that list every element of the finite set S once
Orderings(S) ==
    {q \in [1..Cardinality(S) -> S] :
        \A i, j \in 1..Cardinality(S) : i # j => q[i] # q[j]}

---------------------------------------------------------------------------
(* views.py: inventory_history *)

\* MaterialAllocation.objects.filter(inventory_item=item)
DirectAllocs(pk) ==
    {k \in Keys(allocations) : allocations[k].inventory_item_id = pk}

\* the legacy filter without inventory_item__isnull=True
LegacyAllocsAnyLink(pk) ==
    {k \in Keys(allocations) :
        IContains(allocations[k].material_name, inventory[pk].item_name)}

\* filter(inventory_item__isnull=True, material_name__icontains=item_name)
LegacyAllocs(pk) ==
    {k \in Keys(allocations) :
        /\ allocations[k].inventory_item_id = NoKey
        /\ IContains(allocations[k].material_name, inventory[pk].item_name)}

\* order_by('-allocation_date'): q lists its rows latest date first; the
\* database orders rows of equal date as it likes
ByDateDesc(q) ==
    \A i, j \in 1..Len(q) :
        i < j => ~DateLess(allocations[q[i]].allocation_date,
                           allocations[q[j]].allocation_date)

\* the statistics loop counting every outstanding row as with_patient
RECURSIVE HistoryStatsOutstanding(_, _)
HistoryStatsOutstanding(q, st) ==
    IF q = <<>> THEN st
    ELSE LET alloc == allocations[Head(q)]
             next ==
                IF alloc.return_date # NoDate
                THEN IF alloc.is_damaged
                     THEN [st EXCEPT !.returned_damaged = @ + 1]
                     ELSE [st EXCEPT !.returned_good = @ + 1]
                ELSE [st EXCEPT !.with_patient = @ + 1]
         IN  HistoryStatsOutstanding(Tail(q), next)

\* the statistics loop over the rows q, from the counters st
RECURSIVE HistoryStats(_, _)
HistoryStats(q, st) ==
    IF q = <<>> THEN st
    ELSE LET alloc == allocations[Head(q)]
             next ==
                IF alloc.return_date # NoDate
                THEN IF alloc.is_damaged
                     THEN [st EXCEPT !.returned_damaged = @ + 1]
                     ELSE [st EXCEPT !.returned_good = @ + 1]
                ELSE IF alloc.is_returnable
                     THEN [st EXCEPT !.with_patient = @ + 1]
                     ELSE st
         IN  HistoryStats(Tail(q), next)

\* GET /inventory/<pk>/history; `history` lists the allocation behind each
\* row of the response
InventoryHistory(pk) ==
    LET op == "inventory_history.GET"
    IN  /\ IF pk \notin Keys(inventory)
           THEN resp' = Response(op, 404, pk)
           ELSE \E all_allocs \in
                        Orderings(DirectAllocs(pk) \cup LegacyAllocs(pk)) :
                  /\ ByDateDesc(all_allocs)
                  /\ resp' = [op |-> op, status |-> 200, pk |-> pk,
                              history |-> all_allocs,
                              stats |-> HistoryStats(all_allocs,
                                  [total_allocated |-> Len(all_allocs),
                                   returned_good |-> 0,
                                   returned_damaged |-> 0,
                                   with_patient |-> 0])]
        /\ UNCHANGED <<patients, visits, inventory, allocations>>

---------------------------------------------------------------------------
(* views.py: export_patients *)

\* queryset.filter(...) on a queryset held as the sequence of its row ids
FilterRows(qs, Keep(_)) == SelectSeq(qs, Keep)

\* the search clause: full_name__icontains OR id__icontains
SearchFilter(qs, search) ==
    LET Keep(p) == \/ IContains(patients[p].full_name, search)
                   \/ IContains(NatStr(p), search)
    IN  IF search # <<>> THEN FilterRows(qs, Keep) ELSE qs

\* the status clause
StatusFilter(qs, status) ==
    LET Alive(p) == ~patients[p].is_expired
        Dead(p) == patients[p].is_expired
        Stable(p) == /\ patients[p].current_status \in {"Active", "Stable"}
                     /\ ~patients[p].is_expired
        Condition(p) == /\ patients[p].condition = status
                        /\ ~patients[p].is_expired
        Other(p) == /\ patients[p].current_status = status
                    /\ ~patients[p].is_expired
    IN  IF status = "" THEN qs
        ELSE IF status = "Alive" THEN FilterRows(qs, Alive)
        ELSE IF status = "Dead" THEN FilterRows(qs, Dead)
        ELSE IF status = "Stable" THEN FilterRows(qs, Stable)
        ELSE IF status \in {"Bedridden", "Not Bedridden"}
             THEN FilterRows(qs, Condition)
        ELSE FilterRows(qs, Other)

\* int(request.GET.get(name, default)): NoneStr is the absent parameter
IntParam(raw, default) ==
    IF raw = NoneStr THEN [ok |-> TRUE, v |-> default] ELSE ParseInt(raw)

\* the age clause started again from Patient.objects instead of queryset
AgeFilterFromAll(qs, min_raw, max_raw) ==
    LET min_age == IntParam(min_raw, 0)
        max_age == IntParam(max_raw, 150)
        Keep(p) == patients[p].age >= min_age.v /\ patients[p].age <= max_age.v
    IN  IF min_age.ok /\ max_age.ok
        THEN FilterRows([p \in Keys(patients) |-> p], Keep)
        ELSE qs

\* the age clause; a parameter int() rejects leaves the queryset as it was
AgeFilter(qs, min_raw, max_raw) ==
    LET min_age == IntParam(min_raw, 0)
        max_age == IntParam(max_raw, 150)
        Keep(p) == patients[p].age >= min_age.v /\ patients[p].age <= max_age.v
    IN  IF min_age.ok /\ max_age.ok THEN FilterRows(qs, Keep) ELSE qs

\* the disease clause
DiseaseFilter(qs, disease) ==
    LET Keep(p) == patients[p].disease = disease
    IN  IF disease # "" THEN FilterRows(qs, Keep) ELSE qs

\* the rows of qs joined with the allocations of the given material: one
\* row for every matching allocation of every patient of qs
RECURSIVE JoinMaterial(_, _)
JoinMaterial(qs, material) ==
    IF qs = <<>> THEN <<>>
    ELSE LET p == Head(qs)
             matches == {k \in Keys(allocations) :
                            /\ allocations[k].patient_id = p
                            /\ allocations[k].material_name = material}
         IN  [i \in 1..Cardinality(matches) |-> p]
                \o JoinMaterial(Tail(qs), material)

\* .distinct(): every row once
RECURSIVE Distinct(_)
Distinct(qs) ==
    IF qs = <<>> THEN <<>>
    ELSE LET rest == Distinct(SubSeq(qs, 1, Len(qs) - 1))
             last == qs[Len(qs)]
         IN  IF \E i \in 1..Len(rest) : rest[i] = last
             THEN rest ELSE Append(rest, last)

\* the material clause
MaterialFilter(qs, material) ==
    IF material # <<>> THEN Distinct(JoinMaterial(qs, material)) ELSE qs

\* a sort key of the patient id only
IdKeyLess(a, b) == a > b

\* (p.is_expired, -p.id) of a is less than that of b
ExportKeyLess(a, b) ==
    \/ ~patients[a].is_expired /\ patients[b].is_expired
    \/ patients[a].is_expired = patients[b].is_expired /\ a > b

\* list.sort(key=...): stable, by insertion from the left
RECURSIVE SortExport(_)
SortExport(q) ==
    IF q = <<>> THEN <<>>
    ELSE LET sorted == SortExport(SubSeq(q, 1, Len(q) - 1))
             x == q[Len(q)]
             \* x goes after every element that is not greater than it
             n == Cardinality({i \in 1..Len(sorted) :
                                 ~ExportKeyLess(x, sorted[i])})
         IN  SubSeq(sorted, 1, n) \o <<x>> \o SubSeq(sorted, n + 1, Len(sorted))

Str_excel == <<"e", "x", "c", "e", "l">>
Str_pdf == <<"p", "d", "f">>

\* GET /export/patients; `stages` is the queryset after each clause and
\* `rows` the patient behind each row of the document
ExportPatients(params) ==
    LET op == "export_patients.GET"
        q0 == [p \in Keys(patients) |-> p]
        q1 == SearchFilter(q0, LowerStr(params.search))
        q2 == StatusFilter(q1, params.status)
        q3 == AgeFilter(q2, params.min_age, params.max_age)
        q4 == DiseaseFilter(q3, params.disease)
        q5 == MaterialFilter(q4, params.material)
    IN  /\ IF params.format \in {Str_excel, Str_pdf}
           THEN resp' = [op |-> op, status |-> 200, pk |-> NoKey,
                         stages |-> <<q0, q1, q2, q3, q4, q5>>,
                         rows |-> SortExport(q5)]
           ELSE resp' = Response(op, 400, NoKey)
        /\ UNCHANGED <<patients, visits, inventory, allocations>>

---------------------------------------------------------------------------
(* views.py: export_visits *)

\* `v.visit_date or v.scheduled_date`
EffectiveDateVisitFirst(v) ==
    IF v.visit_date # NoDate THEN v.visit_date ELSE v.scheduled_date

\* `v.scheduled_date or v.visit_date`
EffectiveDate(v) ==
    IF v.scheduled_date # NoDate THEN v.scheduled_date ELSE v.visit_date

\* str.startswith
StartsWith(str, prefix) ==
    Len(prefix) <= Len(str) /\ SubSeq(str, 1, Len(prefix)) = prefix

\* the filter loop over the visits in the order the database returned them
RECURSIVE FilterVisits(_, _, _)
FilterVisits(q, date_filter, month_filter) ==
    IF q = <<>> THEN <<>>
    ELSE LET eff_date == EffectiveDate(visits[Head(q)])
             rest == FilterVisits(Tail(q), date_filter, month_filter)
         IN  IF eff_date = NoDate THEN rest
             ELSE IF TruthySeq(date_filter)
             THEN IF DateStr(eff_date) # date_filter
                  THEN rest ELSE <<Head(q)>> \o rest
             ELSE IF TruthySeq(month_filter)
             THEN IF ~StartsWith(DateStr(eff_date), month_filter)
                  THEN rest ELSE <<Head(q)>> \o rest
             ELSE <<Head(q)>> \o rest

\* list.sort(key=effective date, reverse=True): stable, latest first
RECURSIVE SortVisits(_)
SortVisits(q) ==
    IF q = <<>> THEN <<>>
    ELSE LET sorted == SortVisits(SubSeq(q, 1, Len(q) - 1))
             x == q[Len(q)]
             \* x goes after every element dated no earlier than it
             n == Cardinality({i \in 1..Len(sorted) :
                     ~DateLess(EffectiveDate(visits[sorted[i]]),
                               EffectiveDate(visits[x]))})
         IN  SubSeq(sorted, 1, n) \o <<x>> \o SubSeq(sorted, n + 1, Len(sorted))

\* GET /export/visits; the database returns the unordered queryset in any
\* order; `rows` is the visit behind each row of the document
ExportVisits(params) ==
    LET op == "export_visits.GET"
    IN  /\ IF params.format \in {Str_excel, Str_pdf}
           THEN \E all \in Orderings(Keys(visits)) :
                  resp' = [op |-> op, status |-> 200, pk |-> NoKey,
                           params |-> params,
                           rows |-> SortVisits(
                               FilterVisits(all, params.date, params.month))]
           ELSE resp' = Response(op, 405, NoKey)
        /\ UNCHANGED <<patients, visits, inventory, allocations>>

---------------------------------------------------------------------------
(* views.py: get_analytics *)

\* Patient.objects.filter(...).count() over the table ps
CountWhere(ps, Test(_)) == Cardinality({p \in Keys(ps) : Test(ps[p])})

\* the age groups with the second group starting at 18
AgeGroupsFrom18(ps) ==
    LET G1(r) == r.age <= 18
        G2(r) == r.age >= 18 /\ r.age <= 40
        G3(r) == r.age > 40 /\ r.age <= 60
        G4(r) == r.age > 60
    IN  [g0_18 |-> CountWhere(ps, G1), g19_40 |-> CountWhere(ps, G2),
         g41_60 |-> CountWhere(ps, G3), g60plus |-> CountWhere(ps, G4)]

\* age_groups: the fields stand for the keys '0-18', '19-40', '41-60', '60+'
AgeGroups(ps) ==
    LET G1(r) == r.age <= 18
        G2(r) == r.age > 18 /\ r.age <= 40
        G3(r) == r.age > 40 /\ r.age <= 60
        G4(r) == r.age > 60
    IN  [g0_18 |-> CountWhere(ps, G1), g19_40 |-> CountWhere(ps, G2),
         g41_60 |-> CountWhere(ps, G3), g60plus |-> CountWhere(ps, G4)]

\* the status counts
StatusCounts(ps) ==
    LET Active(r) == r.current_status = "Active" /\ ~r.is_expired
        Moderate(r) == r.current_status = "Moderate" /\ ~r.is_expired
        Severe(r) == r.current_status = "Severe" /\ ~r.is_expired
        Expired(r) == r.is_expired
    IN  [active |-> CountWhere(ps, Active),
         moderate |-> CountWhere(ps, Moderate),
         severe |-> CountWhere(ps, Severe),
         expired |-> CountWhere(ps, Expired)]

\* values('disease').annotate(count=Count('disease'))
DiseaseDistribution(ps) ==
    [d \in {ps[p].disease : p \in Keys(ps)} |->
        LET Has(r) == r.disease = d IN CountWhere(ps, Has)]

\* GET /analytics
GetAnalytics ==
    /\ resp' = [op |-> "get_analytics.GET", status |-> 200, pk |-> NoKey,
                total |-> Len(patients),
                statuses |-> StatusCounts(patients),
                disease_distribution |-> DiseaseDistribution(patients),
                age_groups |-> AgeGroups(patients)]
    /\ UNCHANGED <<patients, visits, inventory, allocations>>

---------------------------------------------------------------------------
(* views.py: allocation_detail PUT, one database statement at a time.  With
   several requests in flight, resp[r] is the position of request r and the
   objects it holds in memory: alloc and item are <<>> or <<row>>. *)

NoRow == <<>>

\* a request that has not started
Waiting ==
    [pc |-> "start", status |-> 0, pk |-> NoKey, alloc |-> NoRow,
     valid |-> TRUE, item |-> NoRow]

\* get_object_or_404, then the assignments to the allocation in memory
LoadAllocation(r, pk, data) ==
    /\ resp[r].pc = "start"
    /\ IF pk \notin Keys(allocations)
       THEN resp' = [resp EXCEPT ![r] =
                        [Waiting EXCEPT !.pc = "done", !.status = 404,
                                        !.pk = pk]]
       ELSE IF ~IsReturnAction(data)
       THEN resp' = [resp EXCEPT ![r] =
                        [Waiting EXCEPT !.pc = "save_allocation", !.pk = pk,
                                        !.alloc = <<allocations[pk]>>]]
       ELSE LET return_date == ParseDate(data.return_date)
                alloc == [allocations[pk] EXCEPT
                             !.return_date = return_date.v,
                             !.is_damaged = Get(data, "is_damaged", FALSE)]
            IN  resp' = [resp EXCEPT ![r] =
                            [Waiting EXCEPT
                                !.pc = IF alloc.inventory_item_id # NoKey
                                       THEN "fetch_item"
                                       ELSE "save_allocation",
                                !.pk = pk, !.alloc = <<alloc>>,
                                !.valid = return_date.ok]]
    /\ UNCHANGED <<patients, visits, inventory, allocations>>

\* allocation.inventory_item: the linked row is read into memory, and
\* `count += 1` is applied to that copy
FetchItem(r) ==
    /\ resp[r].pc = "fetch_item"
    /\ LET alloc == resp[r].alloc[1]
           item == inventory[alloc.inventory_item_id]
       IN  resp' = [resp EXCEPT ![r] =
                IF Restocks(alloc)
                THEN [@ EXCEPT !.pc = "save_item",
                               !.item = <<[item EXCEPT !.count = @ + 1]>>]
                ELSE [@ EXCEPT !.pc = "save_allocation"]]
    /\ UNCHANGED <<patients, visits, inventory, allocations>>

\* the write as UPDATE ... SET count = count + 1 on the stored row
SaveItemIncrement(r) ==
    /\ resp[r].pc = "save_item"
    /\ inventory' = [inventory EXCEPT
                        ![resp[r].alloc[1].inventory_item_id].count = @ + 1]
    /\ resp' = [resp EXCEPT ![r].pc = "save_allocation"]
    /\ UNCHANGED <<patients, visits, allocations>>

\* allocation.inventory_item.save(): every column of the copy is written
SaveItem(r) ==
    /\ resp[r].pc = "save_item"
    /\ inventory' = [inventory EXCEPT
                        ![resp[r].alloc[1].inventory_item_id] =
                            resp[r].item[1]]
    /\ resp' = [resp EXCEPT ![r].pc = "save_allocation"]
    /\ UNCHANGED <<patients, visits, allocations>>

\* allocation.save() and the response; an invalid return_date raises
\* ValidationError here
SaveAllocation(r) ==
    /\ resp[r].pc = "save_allocation"
    /\ IF resp[r].valid
       THEN /\ allocations' = [allocations EXCEPT
                                  ![resp[r].pk] = resp[r].alloc[1]]
            /\ resp' = [resp EXCEPT ![r].pc = "done", ![r].status = 200]
       ELSE /\ allocations' = allocations
            /\ resp' = [resp EXCEPT ![r].pc = "done", ![r].status = 400]
    /\ UNCHANGED <<patients, visits, inventory>>

---------------------------------------------------------------------------
(* the empty database *)

Init ==
    /\ patients = <<>>
    /\ visits = <<>>
    /\ inventory = <<>>
    /\ allocations = <<>>
    /\ resp = Response("none", 0, NoKey)

\* no request was answered yet: a read handler depends on the tables only,
\* so the specifications of the read handlers apply it once to every
\* stored state
Unanswered == resp.op = "none"

---------------------------------------------------------------------------
(* request values *)

Str_2024_03_15 == <<"2", "0", "2", "4", "-", "0", "3", "-", "1", "5">>
Str_2024_03_01 == <<"2", "0", "2", "4", "-", "0", "3", "-", "0", "1">>
Str_2023_11_15 == <<"2", "0", "2", "3", "-", "1", "1", "-", "1", "5">>
Str_2024_02_30 == <<"2", "0", "2", "4", "-", "0", "2", "-", "3", "0">>
Str_abc == <<"a", "b", "c">>
Str_70 == <<"7", "0">>
Str_30 == <<"3", "0">>

---------------------------------------------------------------------------
(* patients and visits: every write handler of the two tables *)

MaxCarePatients == 2
MaxCareVisits == 1

CarePatientBodies ==
    {[full_name |-> <<"A", "n", "u">>, age |-> Str_70,
      condition |-> "Not Bedridden", disease |-> "Cancer"],
     [full_name |-> <<"R", "a", "j">>, age |-> Str_abc,
      condition |-> "Stable", disease |-> "Stroke"]}

CarePatientPuts == {[current_status |-> "Stable", nickname |-> "x"]}

CareVisitBodies ==
    {[patient_id |-> 1, scheduled_date |-> Str_2024_03_15,
      condition_assessment |-> "Severe"],
     [scheduled_date |-> Str_2024_03_01, condition_assessment |-> "Moderate"],
     [scheduled_date |-> Str_2024_03_15],
     [scheduled_date |-> Str_2024_02_30, condition_assessment |-> "Severe"]}

CareVisitPuts ==
    {[condition_assessment |-> "Active"],
     [condition_assessment |-> ""],
     [is_completed |-> TRUE],
     [patient_id |-> 2]}

NextCare ==
    \/ /\ Len(patients) < MaxCarePatients
       /\ \E data \in CarePatientBodies : PatientListPost(data)
    \/ \E pk \in 1..MaxCarePatients + 1, data \in CarePatientPuts :
            PatientDetailPut(pk, data)
    \/ /\ Len(visits) < MaxCareVisits
       /\ \E url_id \in 0..MaxCarePatients, data \in CareVisitBodies :
            VisitListPost(url_id, data)
    \/ \E pk \in 1..MaxCareVisits + 1, data \in CareVisitPuts :
            VisitDetailPut(pk, data)

SpecCare == Init /\ [][NextCare]_vars

---------------------------------------------------------------------------
(* inventory and allocations: every write handler of the two tables, and
   the registration of the one patient the allocations belong to *)

MaxStockItems == 1
MaxStockAllocs == 1
\* the cap on Inventory.count
MaxCount == 3

Str_Bed == <<"B", "e", "d">>

StockPatientBodies ==
    {[full_name |-> <<"A", "n", "u">>, age |-> Str_70,
      condition |-> "Bedridden", disease |-> "Cancer"]}

InventoryBodies ==
    {[item_name |-> Str_Bed, category |-> "Government", count |-> <<"2">>],
     [item_name |-> Str_Bed, category |-> "Sponsorship", count |-> Str_abc]}

InventoryPuts ==
    {[add_stock |-> <<"1">>], [add_stock |-> Str_abc], [count |-> <<"0">>]}

\* inventory_item_id NoKey is the JSON null of an allocation with no link
AllocationBodies(items) ==
    {[material_name |-> Str_Bed, allocation_date |-> Str_2024_03_01,
      inventory_item_id |-> i, is_returnable |-> r] :
        i \in 0..items + 1, r \in BOOLEAN}
    \cup {[material_name |-> Str_Bed]}

AllocationPuts ==
    {[return_date |-> Str_2024_03_15],
     [return_date |-> Str_2024_03_15, is_damaged |-> TRUE],
     [return_date |-> <<>>, is_damaged |-> TRUE],
     [return_date |-> Str_2024_02_30]}

\* no count is at the cap
BelowCap == \A i \in Keys(inventory) : inventory[i].count < MaxCount

NextStock ==
    \/ /\ patients = <<>>
       /\ \E data \in StockPatientBodies : PatientListPost(data)
    \/ /\ Len(inventory) < MaxStockItems
       /\ \E data \in InventoryBodies : InventoryListPost(data)
    \/ /\ BelowCap
       /\ \E pk \in 1..MaxStockItems + 1, data \in InventoryPuts :
            InventoryDetailPut(pk, data)
    \/ /\ Len(allocations) < MaxStockAllocs
       /\ \E patient_id \in {1, 2},
             data \in AllocationBodies(MaxStockItems) :
            AllocationListPost(patient_id, data)
    \/ /\ BelowCap
       /\ \E pk \in 1..MaxStockAllocs + 1, data \in AllocationPuts :
            AllocationDetailPut(pk, data)

SpecStock == Init /\ [][NextStock]_vars

---------------------------------------------------------------------------
(* the whole API: every write handler *)

\* rows per table
MaxRows == 1

VisitBodies ==
    {[scheduled_date |-> Str_2024_03_15, condition_assessment |-> "Severe"]}

VisitPuts == {[is_completed |-> TRUE]}

PatientPuts == {[is_expired |-> TRUE]}

Next ==
    \/ /\ Len(patients) < MaxRows
       /\ \E data \in CarePatientBodies : PatientListPost(data)
    \/ \E pk \in 1..MaxRows + 1, data \in PatientPuts :
            PatientDetailPut(pk, data)
    \/ /\ Len(visits) < MaxRows
       /\ \E url_id \in 1..MaxRows, data \in VisitBodies :
            VisitListPost(url_id, data)
    \/ \E pk \in 1..MaxRows + 1, data \in VisitPuts :
            VisitDetailPut(pk, data)
    \/ /\ Len(inventory) < MaxRows
       /\ \E data \in InventoryBodies : InventoryListPost(data)
    \/ /\ BelowCap
       /\ \E pk \in 1..MaxRows + 1, data \in InventoryPuts :
            InventoryDetailPut(pk, data)
    \/ /\ Len(allocations) < MaxRows
       /\ \E patient_id \in 1..MaxRows + 1,
             data \in AllocationBodies(MaxRows) :
            AllocationListPost(patient_id, data)
    \/ /\ BelowCap
       /\ \E pk \in 1..MaxRows + 1, data \in AllocationPuts :
            AllocationDetailPut(pk, data)

Spec == Init /\ [][Next]_vars

---------------------------------------------------------------------------
(* status propagation *)

VisitWriteOps == {"visit_list.POST", "visit_detail.PUT"}

\* the last request was a Visit write that completed
VisitWritten == resp.op \in VisitWriteOps /\ resp.status \in {200, 201}

\* C1: a completed Visit write (visit_list POST or visit_detail PUT) whose
\* visit carries a non-empty condition_assessment leaves the owning
\* patient's current_status equal to that assessment; one whose visit
\* carries an empty or absent assessment leaves every patient's
\* current_status as it was.
C1_StatusFollowsVisitWrite ==
    [][VisitWritten' =>
        LET v == visits'[resp'.pk]
        IN  IF Truthy(v.condition_assessment)
            THEN patients'[v.patient_id].current_status
                    = v.condition_assessment
            ELSE \A p \in Keys(patients) :
                    patients'[p].current_status = patients[p].current_status
      ]_vars

\* a visit of the second patient was updated with an assessment that no
\* registration or patient edit of this specification produces
C1_Witness ==
    /\ resp.op = "visit_detail.PUT" /\ resp.status = 200
    /\ visits[resp.pk].patient_id = 2
    /\ visits[resp.pk].condition_assessment = "Active"
    /\ patients[2].current_status = "Active"
    /\ patients[1].current_status # "Active"

\* the visits of patient p that carry a condition assessment
AssessedVisits(p) ==
    {k \in Keys(visits) :
        visits[k].patient_id = p /\ Truthy(visits[k].condition_assessment)}

\* the most recent visits of the set A: the one created last, and the ones
\* no other visit of A is dated after
MostRecent(A) ==
    {k \in A : \A j \in A : j <= k}
    \cup {k \in A : /\ EffectiveDate(visits[k]) # NoDate
                    /\ \A j \in A :
                        EffectiveDate(visits[j]) # NoDate =>
                          ~DateLess(EffectiveDate(visits[k]),
                                    EffectiveDate(visits[j]))}

\* C2: a patient with at least one visit that has a condition assessment
\* has current_status equal to the assessment of its most recent such visit
\* (most recent by creation or by effective date).
C2_StatusIsMostRecentAssessment ==
    \A p \in Keys(patients) :
        AssessedVisits(p) # {} =>
            patients[p].current_status \in
                {visits[k].condition_assessment :
                    k \in MostRecent(AssessedVisits(p))}

---------------------------------------------------------------------------
(* the return / restock rule *)

\* the counts of all stored items after the step are those before it, plus
\* n on item k
CountsStep(k, n) ==
    \A i \in Keys(inventory) :
        inventory'[i].count = inventory[i].count + (IF i = k THEN n ELSE 0)

CountsUnchanged == CountsStep(NoKey, 0)

\* C3: an allocation update that records a non-empty return_date on an
\* allocation whose return_date was null, with is_damaged taken from the
\* request (default false), adds exactly 1 to the count of the linked item
\* if and only if the allocation is returnable, not damaged and linked; in
\* every other case no count changes; the return_date and the damage flag
\* are recorded either way.
C3_RestockOnReturn ==
    [][(/\ resp'.op = "allocation_detail.PUT" /\ resp'.status = 200
        /\ allocations[resp'.pk].return_date = NoDate)
       => \A data \in AllocationPuts :
            (IsReturnAction(data) /\ AllocationDetailPut(resp'.pk, data))
            => LET pk == resp'.pk
                   damaged == Get(data, "is_damaged", FALSE)
                   link == allocations[pk].inventory_item_id
                   good == /\ allocations[pk].is_returnable
                           /\ ~damaged
                           /\ link \in Keys(inventory)
               IN  /\ allocations'[pk].return_date
                          = ParseDate(data.return_date).v
                   /\ allocations'[pk].return_date # NoDate
                   /\ allocations'[pk].is_damaged = damaged
                   /\ IF good THEN CountsStep(link, 1) ELSE CountsUnchanged
      ]_vars

\* the return of a returnable, linked allocation was recorded as undamaged
\* and the item, created with count 2, now counts 3
C3_Witness ==
    /\ resp.op = "allocation_detail.PUT" /\ resp.status = 200
    /\ resp.pk \in Keys(allocations)
    /\ LET a == allocations[resp.pk]
       IN  /\ a.return_date # NoDate /\ ~a.is_damaged /\ a.is_returnable
           /\ a.inventory_item_id \in Keys(inventory)
           /\ inventory[a.inventory_item_id].count = 3

\* C4: a completed allocation update addressed to an allocation that
\* already has a return_date changes no Inventory count: the restock fires
\* only in the update where return_date goes from null to non-null, hence
\* at most once per allocation.
C4_RestockOnlyOnFirstReturn ==
    [][(/\ resp'.op = "allocation_detail.PUT" /\ resp'.status = 200
        /\ resp'.pk \in Keys(allocations)
        /\ allocations[resp'.pk].return_date # NoDate)
       => CountsUnchanged
      ]_vars

\* C5: an Inventory count changes only in an inventory edit or restock
\* (inventory_detail PUT) or by +1 on the linked item in an allocation
\* update that records the return of a returnable, undamaged, linked
\* allocation; patient, visit and allocation-creation requests and every
\* other allocation update leave all counts unchanged.
C5_CountFrame ==
    [][\/ CountsUnchanged
       \/ resp'.op = "inventory_detail.PUT" /\ resp'.status = 200
       \/ /\ resp'.op = "allocation_detail.PUT" /\ resp'.status = 200
          /\ resp'.pk \in Keys(allocations)
          /\ LET a == allocations'[resp'.pk]
             IN  /\ a.return_date # NoDate
                 /\ a.is_returnable /\ ~a.is_damaged
                 /\ a.inventory_item_id \in Keys(inventory)
                 /\ CountsStep(a.inventory_item_id, 1)
      ]_vars

---------------------------------------------------------------------------
(* inventory history: the handler applied to stored tables *)

MaxHistAllocs == 3
MaxStatAllocs == 2

Str_Cot == <<"C", "o", "t">>
Str_bEDs == <<"b", "E", "D", "s">>
Str_Be == <<"B", "e">>

OnePatient ==
    <<PatientRow(<<"A", "n", "u">>, 70, "Bedridden", "Cancer", "Bedridden")>>

\* the items "Bed" and "Cot"
TwoItems ==
    <<InventoryRow(Str_Bed, "Government", 2, ""),
      InventoryRow(Str_Cot, "Sponsorship", 0, "")>>

AllocationRow(link, name, date, returnable, returned, damaged) ==
    [patient_id |-> 1, material_name |-> name, inventory_item_id |-> link,
     allocation_date |-> date, is_returnable |-> returnable,
     return_date |-> returned, is_damaged |-> damaged]

\* allocations that differ in link, name and date
HistoryRows ==
    {AllocationRow(link, name, date, FALSE, NoDate, FALSE) :
        link \in 0..2, name \in {Str_bEDs, Str_Cot, Str_Be},
        date \in {<<2024, 3, 1>>, <<2024, 3, 15>>}}

\* allocations that differ in link and in the return flags
StatRows ==
    {AllocationRow(link, Str_bEDs, <<2024, 3, 1>>, returnable, returned,
                   damaged) :
        link \in 0..2, returnable \in BOOLEAN,
        returned \in {NoDate, <<2024, 3, 15>>}, damaged \in BOOLEAN}

\* the tables of up to n rows
Tables(rows, n) == UNION {[1..k -> rows] : k \in 0..n}

InitHistory ==
    /\ patients = OnePatient
    /\ visits = <<>>
    /\ inventory = TwoItems
    /\ allocations \in Tables(HistoryRows, MaxHistAllocs)
    /\ resp = Response("none", 0, NoKey)

InitStats ==
    /\ patients = OnePatient
    /\ visits = <<>>
    /\ inventory = TwoItems
    /\ allocations \in Tables(StatRows, MaxStatAllocs)
    /\ resp = Response("none", 0, NoKey)

NextHistory == Unanswered /\ \E pk \in 1..3 : InventoryHistory(pk)

SpecHistory == InitHistory /\ [][NextHistory]_vars

SpecStats == InitStats /\ [][NextHistory]_vars

HistoryAnswered == resp.op = "inventory_history.GET" /\ resp.status = 200

\* the elements of a sequence
Range(q) == {q[i] : i \in 1..Len(q)}

\* hay contains needle, letter case ignored
ContainsNoCase(hay, needle) ==
    \E i \in 0..(Len(hay) - Len(needle)) :
        \A j \in 1..Len(needle) : Lower(hay[i + j]) = Lower(needle[j])

\* C6: the history returned for item X lists exactly the allocations linked
\* to X and the allocations with no link whose material_name contains X's
\* item_name (letter case ignored), each once, latest allocation_date first;
\* it lists no allocation linked to another item.
C6_HistoryMembers ==
    HistoryAnswered =>
        LET X == resp.pk
            h == resp.history
        IN  /\ Range(h) =
                  {k \in Keys(allocations) :
                      \/ allocations[k].inventory_item_id = X
                      \/ /\ allocations[k].inventory_item_id = NoKey
                         /\ ContainsNoCase(allocations[k].material_name,
                                           inventory[X].item_name)}
            /\ \A i, j \in 1..Len(h) : i # j => h[i] # h[j]
            /\ \A i \in 1..Len(h) - 1 :
                  ~DateLess(allocations[h[i]].allocation_date,
                            allocations[h[i + 1]].allocation_date)
            /\ \A k \in Range(h) :
                  allocations[k].inventory_item_id \in {X, NoKey}

\* the history of "Bed" lists a linked allocation and a later legacy
\* allocation named "bEDs" and leaves out a "bEDs" allocation linked to "Cot"
C6_Witness ==
    /\ HistoryAnswered /\ resp.pk = 1 /\ Len(resp.history) = 2
    /\ allocations[resp.history[1]].inventory_item_id = NoKey
    /\ allocations[resp.history[1]].material_name = Str_bEDs
    /\ allocations[resp.history[1]].allocation_date = <<2024, 3, 15>>
    /\ allocations[resp.history[2]].inventory_item_id = 1
    /\ allocations[resp.history[2]].allocation_date = <<2024, 3, 1>>
    /\ \E k \in Keys(allocations) :
          /\ allocations[k].inventory_item_id = 2
          /\ allocations[k].material_name = Str_bEDs

\* C7: over the merged history set of an item, total_allocated is the size
\* of the set, returned_good counts the allocations with a return_date and
\* is_damaged false, returned_damaged those with a return_date and
\* is_damaged true, with_patient those with no return_date that are
\* returnable; total_allocated is the sum of the three and of the number of
\* outstanding non-returnable allocations.
C7_HistoryStats ==
    HistoryAnswered =>
        LET H == Range(resp.history)
            returned == {k \in H : allocations[k].return_date # NoDate}
            st == resp.stats
        IN  /\ st.total_allocated = Cardinality(H)
            /\ st.returned_good =
                  Cardinality({k \in returned : ~allocations[k].is_damaged})
            /\ st.returned_damaged =
                  Cardinality({k \in returned : allocations[k].is_damaged})
            /\ st.with_patient =
                  Cardinality({k \in H \ returned :
                                  allocations[k].is_returnable})
            /\ st.total_allocated =
                  st.returned_good + st.returned_damaged + st.with_patient
                  + Cardinality({k \in H \ returned :
                                    ~allocations[k].is_returnable})

\* the history holds an outstanding allocation that is not returnable and
\* a damaged return: neither counts as with_patient
C7_Witness ==
    /\ HistoryAnswered
    /\ resp.stats.total_allocated = 2
    /\ resp.stats.returned_damaged = 1
    /\ resp.stats.with_patient = 0
    /\ resp.stats.returned_good = 0

---------------------------------------------------------------------------
(* patient export: the handler applied to stored tables *)

MaxExportPatients == 2
MaxSortPatients == 3
MaxExportAllocs == 2

Str_Anu == <<"A", "n", "u">>
Str_Raj == <<"R", "a", "j">>

\* two registrations, each alive or expired
ExportPatientRows ==
    {[PatientRow(Str_Anu, 70, "Bedridden", "Cancer", "Active")
         EXCEPT !.is_expired = e] : e \in BOOLEAN}
    \cup {[PatientRow(Str_Raj, 30, "Not Bedridden", "Stroke", "Severe")
             EXCEPT !.is_expired = e] : e \in BOOLEAN}

\* allocations of a "Bed" to the first n patients, none linked
ExportAllocRows(n) ==
    {[AllocationRow(NoKey, Str_Bed, <<2024, 3, 1>>, FALSE, NoDate, FALSE)
         EXCEPT !.patient_id = p] : p \in 1..n}

InitExport(n) ==
    /\ patients \in Tables(ExportPatientRows, n)
    /\ visits = <<>>
    /\ inventory = <<>>
    /\ allocations \in Tables(ExportAllocRows(n), MaxExportAllocs)
    /\ \A k \in Keys(allocations) :
          allocations[k].patient_id \in Keys(patients)
    \* the export never reads an allocation's id: one order of the rows
    /\ \A k \in 1..Len(allocations) - 1 :
          allocations[k].patient_id <= allocations[k + 1].patient_id
    /\ resp = Response("none", 0, NoKey)

\* the age parameters: absent, a range, a lower limit int() rejects
AgeParams ==
    {[min_age |-> NoneStr, max_age |-> NoneStr],
     [min_age |-> <<"4", "0">>, max_age |-> NoneStr],
     [min_age |-> NoneStr, max_age |-> <<"6", "0">>],
     [min_age |-> Str_abc, max_age |-> <<"6", "0">>]}

ExportParams ==
    {[search |-> search, status |-> status, min_age |-> age.min_age,
      max_age |-> age.max_age, disease |-> disease, material |-> material,
      format |-> Str_excel] :
        search \in {<<>>, <<"a", "N">>, <<"2">>},
        status \in {"", "Alive", "Dead", "Stable", "Bedridden",
                    "Not Bedridden", "Severe"},
        age \in AgeParams, disease \in {"", "Cancer"},
        material \in {<<>>, Str_Bed}}

\* the requests that leave every clause but status and material unapplied
SortParams ==
    [search : {<<>>}, status : {"", "Alive", "Dead"}, min_age : {NoneStr},
     max_age : {NoneStr}, disease : {""}, material : {<<>>, Str_Bed},
     format : {Str_excel, Str_pdf, <<"c", "s", "v">>}]

NextExportPatients ==
    Unanswered /\ \E params \in ExportParams : ExportPatients(params)

NextExportOrder ==
    Unanswered /\ \E params \in SortParams : ExportPatients(params)

SpecExportPatients ==
    InitExport(MaxExportPatients) /\ [][NextExportPatients]_vars

SpecExportOrder == InitExport(MaxSortPatients) /\ [][NextExportOrder]_vars

PatientsExported == resp.op = "export_patients.GET" /\ resp.status = 200

\* C8: the patient export filter only narrows: the patients left after each
\* of the clauses search, status, age range, disease, material are among
\* those left before that clause, and the exported rows are stored
\* patients, none of them twice.
C8_ExportNarrows ==
    PatientsExported =>
        /\ Range(resp.stages[1]) = Keys(patients)
        /\ \A c \in 1..5 :
              Range(resp.stages[c + 1]) \subseteq Range(resp.stages[c])
        /\ Range(resp.rows) = Range(resp.stages[6])
        /\ Range(resp.rows) \subseteq Keys(patients)
        /\ \A i, j \in 1..Len(resp.rows) : i # j => resp.rows[i] # resp.rows[j]

\* the search clause, the age clause and the material clause each dropped
\* a patient, and a patient with two allocations of the material is exported
C8_Witness ==
    /\ PatientsExported
    /\ Range(resp.stages[2]) # Range(resp.stages[1])
    /\ Len(resp.rows) = 1
    /\ Cardinality({k \in Keys(allocations) :
                       allocations[k].patient_id = resp.rows[1]}) = 2

\* C9: the patient export lists every non-expired patient before every
\* expired patient, and within each of the two groups the ids strictly
\* descend.
C9_ExportOrder ==
    PatientsExported =>
        \A i, j \in 1..Len(resp.rows) :
            i < j =>
                LET a == resp.rows[i]
                    b == resp.rows[j]
                IN  /\ patients[a].is_expired => patients[b].is_expired
                    /\ patients[a].is_expired = patients[b].is_expired
                          => a > b

\* three patients are exported: the expired patient has the highest id and
\* comes last, after the two others in descending id order
C9_Witness ==
    /\ PatientsExported
    /\ resp.rows = <<2, 1, 3>>
    /\ patients[3].is_expired

---------------------------------------------------------------------------
(* visit export: the handler applied to stored tables *)

MaxExportVisits == 3

\* visits of the one patient with and without either date
ExportVisitRows ==
    {[VisitRow(1, scheduled, None) EXCEPT !.visit_date = visited] :
        scheduled \in {NoDate, <<2024, 3, 15>>, <<2024, 3, 1>>},
        visited \in {NoDate, <<2023, 11, 15>>}}

InitExportVisits ==
    /\ patients = OnePatient
    /\ visits \in Tables(ExportVisitRows, MaxExportVisits)
    /\ inventory = <<>>
    /\ allocations = <<>>
    /\ resp = Response("none", 0, NoKey)

Str_2024_03 == <<"2", "0", "2", "4", "-", "0", "3">>
Str_2024_3_15 == <<"2", "0", "2", "4", "-", "3", "-", "1", "5">>
Str_2023 == <<"2", "0", "2", "3">>

\* NoneStr is the absent parameter
VisitExportParams ==
    [date : {NoneStr, <<>>, Str_2024_03_15, Str_2024_3_15},
     month : {NoneStr, Str_2024_03, Str_2023},
     format : {Str_excel, <<"c", "s", "v">>}]

NextExportVisits ==
    Unanswered /\ \E params \in VisitExportParams : ExportVisits(params)

SpecExportVisits == InitExportVisits /\ [][NextExportVisits]_vars

VisitsExported == resp.op = "export_visits.GET" /\ resp.status = 200

\* the first Len(prefix) characters of str are prefix
HasPrefix(str, prefix) ==
    /\ Len(prefix) <= Len(str)
    /\ \A i \in 1..Len(prefix) : str[i] = prefix[i]

\* C10: the visit export lists exactly the visits that have an effective
\* date (scheduled_date if present, else visit_date) and pass the filter:
\* with an exact-date parameter, the visits whose effective date string
\* equals it, whatever the month parameter; else with a year-month
\* parameter, the visits whose effective date string starts with it; else
\* all of them.  The rows are ordered by effective date, latest first.
C10_VisitExport ==
    VisitsExported =>
        LET date == resp.params.date
            month == resp.params.month
            Eff(k) == IF visits[k].scheduled_date # NoDate
                      THEN visits[k].scheduled_date
                      ELSE visits[k].visit_date
            Passes(k) ==
                IF date # NoneStr /\ date # <<>>
                THEN DateStr(Eff(k)) = date
                ELSE IF month # NoneStr /\ month # <<>>
                THEN HasPrefix(DateStr(Eff(k)), month)
                ELSE TRUE
            rows == resp.rows
        IN  /\ Range(rows) =
                  {k \in Keys(visits) : Eff(k) # NoDate /\ Passes(k)}
            /\ \A i, j \in 1..Len(rows) : i # j => rows[i] # rows[j]
            /\ \A i \in 1..Len(rows) - 1 :
                  ~DateLess(Eff(rows[i]), Eff(rows[i + 1]))

\* the export for the date 2024-03-15 and the month 2023 lists the visit
\* scheduled on that day, which was also visited in 2023, and drops a visit
\* with no date and a visit scheduled on 2024-03-01
C10_Witness ==
    /\ VisitsExported
    /\ resp.params.date = Str_2024_03_15 /\ resp.params.month = Str_2023
    /\ Len(visits) = 3 /\ Len(resp.rows) = 1
    /\ visits[resp.rows[1]].scheduled_date = <<2024, 3, 15>>
    /\ visits[resp.rows[1]].visit_date = <<2023, 11, 15>>
    /\ \E k \in Keys(visits) :
          visits[k].scheduled_date = NoDate /\ visits[k].visit_date = NoDate
    /\ \E k \in Keys(visits) : visits[k].scheduled_date = <<2024, 3, 1>>

---------------------------------------------------------------------------
(* inventory edits: creation and update of inventory items *)

MaxEditItems == 2

\* update bodies: add_stock positive, zero, negative and not a number, alone
\* and with other fields of the item; bodies without add_stock
InventoryEditPuts ==
    {[add_stock |-> <<"2">>],
     [add_stock |-> <<"1">>, item_name |-> Str_Cot, count |-> <<"0">>],
     [add_stock |-> <<"0">>, item_name |-> Str_Cot],
     [add_stock |-> <<"-", "1">>, category |-> "Sponsorship"],
     [add_stock |-> Str_abc, item_name |-> Str_Cot],
     [count |-> <<"1">>, description |-> "spare"],
     [item_name |-> Str_Bed, category |-> "Government"]}

NextEdit ==
    \/ /\ Len(inventory) < MaxEditItems
       /\ \E data \in InventoryBodies : InventoryListPost(data)
    \/ /\ BelowCap
       /\ \E pk \in 1..MaxEditItems + 1, data \in InventoryEditPuts :
            InventoryDetailPut(pk, data)

SpecEdit == Init /\ [][NextEdit]_vars

\* C11: an inventory update whose body contains add_stock changes no field
\* of the item other than count, whatever else the body names and whatever
\* the value of add_stock, and when add_stock is the number d the count
\* becomes the old count plus d.
C11_AddStockShortCircuits ==
    [][resp'.op = "inventory_detail.PUT" /\ resp'.pk \in Keys(inventory)
       => \A data \in InventoryEditPuts :
            ("add_stock" \in DOMAIN data
                /\ InventoryDetailPut(resp'.pk, data))
            => LET old == inventory[resp'.pk]
                   new == inventory'[resp'.pk]
                   val == ParseInt(data.add_stock)
               IN  /\ new.item_name = old.item_name
                   /\ new.category = old.category
                   /\ new.description = old.description
                   /\ new.count = old.count + (IF val.ok THEN val.v ELSE 0)
      ]_vars

---------------------------------------------------------------------------
(* analytics: registrations, patient edits and the analytics request *)

MaxAnalyticsPatients == 3

\* registrations with an age at and next to each group limit, a negative
\* age and an age int() rejects
AnalyticsAges ==
    {<<"-", "5">>, <<"1", "8">>, <<"1", "9">>, <<"4", "0">>, <<"4", "1">>,
     <<"6", "0">>, <<"6", "1">>, Str_70, Str_abc}

AnalyticsPatientBodies ==
    {[full_name |-> Str_Anu, age |-> a, condition |-> "Bedridden",
      disease |-> "Cancer"] : a \in AnalyticsAges}

AnalyticsPatientPuts == {[age |-> Str_30], [age |-> Str_abc]}

NextAnalytics ==
    \/ /\ Len(patients) < MaxAnalyticsPatients
       /\ \E data \in AnalyticsPatientBodies : PatientListPost(data)
    \/ \E pk \in 1..MaxAnalyticsPatients + 1, data \in AnalyticsPatientPuts :
            PatientDetailPut(pk, data)
    \/ GetAnalytics

SpecAnalytics == Init /\ [][NextAnalytics]_vars

Analysed == resp.op = "get_analytics.GET"

\* the sum of the four age group counts
GroupSum(g) == g.g0_18 + g.g19_40 + g.g41_60 + g.g60plus

\* the age group whose label contains the age a (none for a negative age)
LabelOf(a) ==
    IF a \in 0..18 THEN "g0_18"
    ELSE IF a \in 19..40 THEN "g19_40"
    ELSE IF a \in 41..60 THEN "g41_60"
    ELSE IF a > 60 THEN "g60plus"
    ELSE "none"

\* C12: the four age group counts of an analytics response sum to its
\* total, the number of stored patients; and a registration raises exactly
\* one age group count by 1, the one whose label contains the registered
\* age, leaving the other three as they were.
C12_AgeBuckets ==
    /\ [](Analysed =>
            /\ resp.total = Len(patients)
            /\ GroupSum(resp.age_groups) = resp.total)
    /\ [][resp'.op = "patient_list.POST" /\ resp'.status = 201
          => LET a == patients'[resp'.pk].age
                 before == AgeGroups(patients)
                 after == AgeGroups(patients')
             IN  \E g \in DOMAIN before :
                    /\ after[g] = before[g] + 1
                    /\ \A h \in DOMAIN before \ {g} : after[h] = before[h]
                    /\ LabelOf(a) # "none" => g = LabelOf(a)
         ]_vars

\* analytics answered for three patients registered with the ages 18, 19
\* and 70: one patient in each of the groups 0-18, 19-40 and 60+
C12_Witness ==
    /\ Analysed /\ resp.total = 3
    /\ {patients[p].age : p \in Keys(patients)} = {18, 19, 70}
    /\ resp.age_groups =
          [g0_18 |-> 1, g19_40 |-> 1, g41_60 |-> 0, g60plus |-> 1]

---------------------------------------------------------------------------
(* patient status: registrations with every condition of the form, patient
   edits and visit writes *)

MaxStatusPatients == 2
MaxStatusVisits == 1

\* the conditions patient_list copies to the status, and one it does not
StatusPatientBodies ==
    {[full_name |-> Str_Anu, age |-> Str_70, condition |-> c,
      disease |-> "Cancer"] :
        c \in StatusConditions \cup {"Not Bedridden"}}

StatusPatientPuts == {[current_status |-> "Active"], [age |-> Str_30]}

StatusVisitBodies ==
    {[scheduled_date |-> Str_2024_03_01, condition_assessment |-> a] :
        a \in {"Moderate", ""}}

StatusVisitPuts == {[condition_assessment |-> "Severe"]}

NextStatus ==
    \/ /\ Len(patients) < MaxStatusPatients
       /\ \E data \in StatusPatientBodies : PatientListPost(data)
    \/ \E pk \in 1..MaxStatusPatients + 1, data \in StatusPatientPuts :
            PatientDetailPut(pk, data)
    \/ /\ Len(visits) < MaxStatusVisits
       /\ \E url_id \in 1..MaxStatusPatients + 1,
             data \in StatusVisitBodies :
            VisitListPost(url_id, data)
    \/ \E pk \in 1..MaxStatusVisits + 1, data \in StatusVisitPuts :
            VisitDetailPut(pk, data)

SpecStatus == Init /\ [][NextStatus]_vars

\* C13: every stored patient's current_status is one of Active, Stable,
\* Moderate, Severe.
C13_StatusInChoices ==
    \A p \in Keys(patients) :
        patients[p].current_status
            \in {"Active", "Stable", "Moderate", "Severe"}

---------------------------------------------------------------------------
(* the allocation lifecycle *)

\* C14: no request changes the return_date or the is_damaged flag of an
\* allocation whose return_date is already set; in particular a set
\* return_date never becomes null again.
C14_ReturnedIsFinal ==
    [][\A k \in Keys(allocations) :
          allocations[k].return_date # NoDate
          => /\ allocations'[k].return_date = allocations[k].return_date
             /\ allocations'[k].is_damaged = allocations[k].is_damaged
      ]_vars

---------------------------------------------------------------------------
(* concurrent returns: two allocation updates in flight over stored
   tables *)

MaxRaceAllocs == 2

Requests == {"r1", "r2"}

\* outstanding allocations of the patient, linked to the item or not
RaceRows ==
    {AllocationRow(link, Str_Bed, <<2024, 3, 1>>, returnable, NoDate, FALSE) :
        link \in {NoKey, 1}, returnable \in BOOLEAN}

RaceBodies ==
    {[return_date |-> Str_2024_03_15],
     [return_date |-> Str_2024_03_15, is_damaged |-> TRUE],
     [return_date |-> Str_2024_02_30],
     [is_damaged |-> TRUE]}

\* one item "Bed" with count 2
InitRace ==
    /\ patients = OnePatient
    /\ visits = <<>>
    /\ inventory = <<InventoryRow(Str_Bed, "Government", 2, "")>>
    /\ allocations \in Tables(RaceRows, MaxRaceAllocs)
    /\ resp = [r \in Requests |-> Waiting]

NextRace ==
    \E r \in Requests :
        \/ \E pk \in 1..MaxRaceAllocs + 1, data \in RaceBodies :
                LoadAllocation(r, pk, data)
        \/ FetchItem(r)
        \/ SaveItem(r)
        \/ SaveAllocation(r)

SpecRace == InitRace /\ [][NextRace]_vars

\* both requests were answered 200 after restocking, for two different
\* allocations
BothRestocked ==
    /\ \A r \in Requests :
          resp[r].pc = "done" /\ resp[r].status = 200
              /\ resp[r].item # NoRow
    /\ resp["r1"].pk # resp["r2"].pk

\* C15: when two concurrent returns of two different returnable, undamaged
\* allocations linked to the item of count 2 are both answered 200, both
\* returns are recorded and the count is 3 or 4; it is 3, one increment
\* lost, exactly when both requests read the item before either wrote it.
C15_LostUpdate ==
    BothRestocked =>
        /\ \A r \in Requests :
              allocations[resp[r].pk].return_date = <<2024, 3, 15>>
        /\ inventory[1].count \in {3, 4}
        /\ inventory[1].count = 3
              <=> resp["r1"].item[1].count = resp["r2"].item[1].count

\* both returns are recorded and the count went from 2 to 3 only
C15_Witness ==
    /\ BothRestocked
    /\ \A r \in Requests :
          /\ allocations[resp[r].pk].return_date # NoDate
          /\ allocations[resp[r].pk].is_returnable
          /\ ~allocations[resp[r].pk].is_damaged
          /\ allocations[resp[r].pk].inventory_item_id = 1
    /\ inventory[1].count = 3

---------------------------------------------------------------------------
(* error responses *)

\* C16: a write request answered with an error (400 or 404) leaves the four
\* tables as they were: no row is created and no field, in particular no
\* Inventory count, is changed.
C16_ErrorKeepsState ==
    [][resp'.status \in {400, 404}
       => UNCHANGED <<patients, visits, inventory, allocations>>
      ]_vars

====
